---- MODULE Spec2Model ----
(***************************************************************************)
(* The resource-monitoring core of src-tauri/src/system_monitor.rs:        *)
(*   - SYSTEM_INFO, a Mutex<Option<SystemInfo>> shared by all tasks;       *)
(*   - start_system_monitoring, the sampler loop (one task);               *)
(*   - get_system_info, the read accessor (any number of caller tasks).    *)
(* Time is counted in units of 200ms (one tick of the loop).  Float values *)
(* are kept as reduced fractions <<numerator, denominator>>.               *)
(* And the start of the application, src-tauri/src/lib.rs:                 *)
(*   - the setup closure of run(), which spawns the sampler and then       *)
(*     prepares the configuration;                                         *)
(*   - initialize_store and the loaders of src-tauri/src/store_manager.rs, *)
(*     over the configuration file and the store resource opened on it.    *)
(***************************************************************************)
EXTENDS Integers, Sequences, FiniteSets, TLC

(* ---------------------------------------------------------------- bounds *)
\* number of concurrent callers of get_system_info
NumReaders == 2
\* longest time (in 200ms units) one refresh call of the provider may take
MaxWork == 1
\* number of times the application is started on the same configuration file
MaxLaunches == 2

(* ------------------------------------------------------ program constants *)
\* Duration::from_millis(200), the warm-up delay (line 55), in 200ms units
WarmupDelay == 1
\* Duration::from_millis(200), the tick of the loop (line 95), in 200ms units
Tick == 1
\* Duration::from_secs(2), the refresh interval (line 59), in 200ms units
\* (faulty variant: Duration::from_secs(3))
IntervalThreeSeconds == 5 * 3
Interval == 10

Readers == 1 .. NumReaders
\* the task id of the sampler loop, as a holder of the lock
SamplerTask == NumReaders + 1

\* saturation points of the two clocks: past them only "at least" matters
ElapsedCap == Interval + WarmupDelay + Tick + MaxWork
WorkCap == 3 * MaxWork
SinceCap == Interval + WarmupDelay + WorkCap + 1

Min(a, b) == IF a <= b THEN a ELSE b

(* ------------------------------------------------------------ arithmetic *)
RECURSIVE GCD(_, _)
GCD(a, b) == IF b = 0 THEN a ELSE GCD(b, a % b)

\* the float n / d as a reduced fraction; 0.0 / 0.0 is NaN, kept as <<0, 0>>
Frac(n, d) == IF d = 0 THEN <<0, 0>> ELSE <<n \div GCD(n, d), d \div GCD(n, d)>>

RECURSIVE Sum(_)
Sum(s) == IF s = <<>> THEN 0 ELSE Head(s) + Sum(Tail(s))

(* ------------------------------------------------- the provider's readings *)
\* sys.cpus(): one usage percentage per logical core
CpuReadings == {<<100>>, <<0, 100>>}
\* sys.used_memory(), sys.total_memory()
MemReadings == {[used |-> 0, total |-> 0], [used |-> 1, total |-> 2]}
\* sys.process(current_pid): None, or the process with its cpu_usage() and memory()
ProcReadings == {[found |-> FALSE, cpu |-> 0, mem |-> 0], [found |-> TRUE, cpu |-> 50, mem |-> 1]}

Readings == [cpus : CpuReadings, mem : MemReadings, proc : ProcReadings]
\* the readings of the liveness specification: in every cycle the process lookup
\* fails and total memory is zero
LiveReadings == {r \in Readings : r.cpus = <<100>> /\ ~r.proc.found /\ r.mem.total = 0}
NoReadings == [cpus |-> <<>>, mem |-> [used |-> 0, total |-> 0], proc |-> [found |-> FALSE, cpu |-> 0, mem |-> 0]]

(* ------------------------------------------------------------- SystemInfo *)
ZeroInfo ==
  [cpu_usage |-> <<0, 1>>, memory_usage |-> <<0, 1>>, memory_used |-> 0,
   memory_total |-> 0, process_cpu_usage |-> <<0, 1>>, process_memory_usage |-> 0]

\* line 65: the mean of the per-core usages
\* (faulty variant: the sum is not divided by the number of cores)
CpuUsageSumOnly(cpus) == Frac(Sum(cpus), 1)
CpuUsage(cpus) == Frac(Sum(cpus), Len(cpus))

\* line 70: used / total * 100, or 0.0 when total is 0
\* (faulty variant: the division without its guard)
MemoryUsageUnguarded(used, total) == Frac(used * 100, total)
MemoryUsage(used, total) == IF total > 0 THEN Frac(used * 100, total) ELSE <<0, 1>>

\* lines 73-77: the process's metrics, or (0.0, 0) when the lookup fails
\* (faulty variant: -1.0 as the cpu usage of a process that was not found)
ProcessMetricsSentinel(proc) == IF proc.found THEN <<Frac(proc.cpu, 1), proc.mem>> ELSE <<<<0 - 1, 1>>, 0>>
ProcessMetrics(proc) == IF proc.found THEN <<Frac(proc.cpu, 1), proc.mem>> ELSE <<<<0, 1>>, 0>>

\* lines 65-77: the six locals of one cycle
Compute(r) ==
  [cpu_usage |-> CpuUsage(r.cpus),
   memory_usage |-> MemoryUsage(r.mem.used, r.mem.total),
   memory_used |-> r.mem.used,
   memory_total |-> r.mem.total,
   process_cpu_usage |-> ProcessMetrics(r.proc)[1],
   process_memory_usage |-> ProcessMetrics(r.proc)[2]]

\* Option<SystemInfo>: the payload of None is never read
None == [some |-> FALSE, info |-> ZeroInfo]
Some(i) == [some |-> TRUE, info |-> i]

\* line 20: the initial content of SYSTEM_INFO
\* (faulty variant: the store starts with a default, zero-filled SystemInfo)
InitialStoreDefault == Some(ZeroInfo)
InitialStore == None

(* ------------------------------------------------- results of the accessor *)
NoReturn == [kind |-> "none", info |-> ZeroInfo]
Ok(i) == [kind |-> "Ok", info |-> i]
NotInitialized == [kind |-> "NotInitialized", info |-> ZeroInfo]
\* (faulty variant: the lock error carries the message of NotInitialized)
LockErrorSameMessage == [kind |-> "NotInitialized", info |-> ZeroInfo]
LockError == [kind |-> "LockError", info |-> ZeroInfo]

(* ------------------------------------------------- the configuration store *)
\* the three keys of the configuration file
Keys == {"project_config", "window_config", "window_state"}
\* a key that the store does not have
Absent == "absent"
\* the values a key may hold: the one of Config::default(), another well-formed
\* one, and one that does not deserialize into the key's struct
Values == {Absent, "default", "custom", "malformed"}
\* lines 61-90, 106: Config::default(), the value of each key
DefaultConfig == [k \in Keys |-> "default"]

\* no configuration file yet: a store loaded from it has no key
NoFile == [k \in Keys |-> Absent]
\* no store resource is open
Closed == [open |-> FALSE, content |-> NoFile]
\* the store resource is open, holding s
Opened(s) == [open |-> TRUE, content |-> s]

\* line 103 (and 147, 159, 171): app.store(path), the resource already open on
\* the path, or else a new one loaded from the file
OpenStore(res, d) == IF res.open THEN res.content ELSE d

\* store.has(key)
Has(s, k) == s[k] # Absent

\* lines 110-116, 120-126, 130-136: if !store.has(key) { store.set(key, default) }
\* (faulty variant: the default is set whether the key is there or not)
SetAlways(s, k) == [s EXCEPT ![k] = DefaultConfig[k]]
SetIfAbsent(s, k) == IF Has(s, k) THEN s ELSE [s EXCEPT ![k] = DefaultConfig[k]]

\* lines 110-136: the three keys in turn
SetDefaults(s) ==
  SetIfAbsent(SetIfAbsent(SetIfAbsent(s, "project_config"), "window_config"),
              "window_state")

\* lines 161-164, 173-176: store.get(key) and serde_json::from_value succeed
Loads(s, k) == Has(s, k) /\ s[k] # "malformed"

VARIABLES
  store,          \* SYSTEM_INFO's content, an Option<SystemInfo>
  lockHolder,     \* the tasks holding SYSTEM_INFO's mutex ({} when it is free)
  poisoned,       \* whether the mutex is poisoned
  spc,            \* the sampler loop's position
  sys,            \* the readings of this cycle's refresh (NoReadings outside a cycle)
  local,          \* the six locals computed in this cycle (ZeroInfo outside a cycle)
  elapsed,        \* last_update.elapsed(), saturating at ElapsedCap
  sinceStart,     \* time since start_system_monitoring began, saturating at SinceCap
  workTime,       \* time spent in the provider's calls up to the first publish,
                  \* saturating at WorkCap
  sinceRefresh,   \* time since the last full refresh of the loop returned (since the
                  \* task began, before the first one), saturating at SinceCap
  sincePublish,   \* time since the last completed publish, saturating at SinceCap
  lastPublished,  \* the snapshot of the last completed publish (None before it)
  rpc,            \* each caller's position in get_system_info
  ret,            \* the value of the last get_system_info call that returned
  setupPc,        \* the position of run() and of its setup closure
  spawnCount,     \* the number of sampler tasks spawned since the application started
  disk,           \* the configuration file: the value of each key
  resource,       \* the store resource opened on the file (Closed when there is none)
  launches,       \* the number of times the application was started
  storeInits      \* the number of calls of initialize_store that returned Ok

vars == <<store, lockHolder, poisoned, spc, sys, local, elapsed, sinceStart, workTime,
          sinceRefresh, sincePublish, lastPublished, rpc, ret,
          setupPc, spawnCount, disk, resource, launches, storeInits>>

setupVars == <<setupPc, spawnCount, disk, resource, launches, storeInits>>

monitorVars == <<store, lockHolder, poisoned, spc, sys, local, elapsed, sinceStart,
                 workTime, sinceRefresh, sincePublish, lastPublished, rpc, ret>>

samplerVars == <<spc, sys, local, elapsed, sinceStart, workTime, sinceRefresh,
                 sincePublish, lastPublished>>

\* the monitor when the sampler task begins
MonitorInit ==
  /\ store = InitialStore
  /\ lockHolder = {}
  /\ poisoned = FALSE
  /\ spc = "new_all"
  /\ sys = NoReadings
  /\ local = ZeroInfo
  /\ elapsed = 0
  /\ sinceStart = 0
  /\ workTime = 0
  /\ sinceRefresh = 0
  /\ sincePublish = 0
  /\ lastPublished = None
  /\ rpc = [r \in Readers |-> "idle"]
  /\ ret = NoReturn

\* the monitor alone: the sampler task has just been spawned by setup, and the
\* rest of setup is left out
Init ==
  /\ MonitorInit
  /\ setupPc = "config_dir"
  /\ spawnCount = 1
  /\ disk = NoFile
  /\ resource = Closed
  /\ launches = 1
  /\ storeInits = 0

(* ------------------------------------------------------------------ mutex *)
\* Mutex::lock blocks until no task holds the mutex
\* (faulty variant: the content is reached without mutual exclusion)
CanAcquireUnguarded(t) == TRUE
CanAcquire(t) == lockHolder = {}

\* time passes on the clocks of the task: dt units, of which work is spent inside
\* the provider
PassTask(dt, work) ==
  /\ elapsed' = Min(elapsed + dt, ElapsedCap)
  /\ sinceStart' = Min(sinceStart + dt, SinceCap)
  /\ sincePublish' = Min(sincePublish + dt, SinceCap)
  /\ workTime' = IF lastPublished.some THEN workTime ELSE Min(workTime + work, WorkCap)

\* time passes, no full refresh returning in it
Pass(dt, work) ==
  /\ PassTask(dt, work)
  /\ sinceRefresh' = Min(sinceRefresh + dt, SinceCap)

(* ------------------------------------------------- start_system_monitoring *)
\* lines 47-48: System::new_all(), then last_update = Instant::now()
NewAll ==
  /\ spc = "new_all"
  /\ \E dt \in 0 .. MaxWork :
       /\ sinceStart' = Min(sinceStart + dt, SinceCap)
       /\ sinceRefresh' = Min(sinceRefresh + dt, SinceCap)
       /\ sincePublish' = Min(sincePublish + dt, SinceCap)
       /\ workTime' = workTime + dt
  /\ elapsed' = 0
  /\ spc' = "refresh_all"
  /\ UNCHANGED <<store, lockHolder, poisoned, sys, local, lastPublished, rpc, ret>>
  /\ UNCHANGED setupVars

\* line 54: the warm-up refresh; its readings are never read
RefreshAll ==
  /\ spc = "refresh_all"
  /\ \E dt \in 0 .. MaxWork : Pass(dt, dt)
  /\ spc' = "warmup_sleep"
  /\ UNCHANGED <<store, lockHolder, poisoned, sys, local, lastPublished, rpc, ret>>
  /\ UNCHANGED setupVars

\* line 55: the warm-up delay
\* (faulty variant: the loop is entered with no delay after the warm-up refresh)
WarmupSleepNoDelay ==
  /\ spc = "warmup_sleep"
  /\ Pass(0, 0)
  /\ spc' = "check"
  /\ UNCHANGED <<store, lockHolder, poisoned, sys, local, lastPublished, rpc, ret>>
  /\ UNCHANGED setupVars
WarmupSleep ==
  /\ spc = "warmup_sleep"
  /\ Pass(WarmupDelay, 0)
  /\ spc' = "check"
  /\ UNCHANGED <<store, lockHolder, poisoned, sys, local, lastPublished, rpc, ret>>
  /\ UNCHANGED setupVars

\* line 59: last_update.elapsed() >= Duration::from_secs(2)
\* (faulty variant: the check passes one tick early)
IntervalElapsedEarly == elapsed + Tick >= Interval
IntervalElapsed == elapsed >= Interval

Check ==
  /\ spc = "check"
  /\ spc' = IF IntervalElapsed THEN "refresh" ELSE "sleep"
  /\ UNCHANGED <<store, lockHolder, poisoned, sys, local, elapsed, sinceStart, workTime,
                 sinceRefresh, sincePublish, lastPublished, rpc, ret>>
  /\ UNCHANGED setupVars

\* lines 60-77: refresh_cpu, refresh_memory, refresh_processes, then the six locals;
\* S is the set of readings the provider may give
RefreshFrom(S) ==
  /\ spc = "refresh"
  /\ \E dt \in 0 .. MaxWork : PassTask(dt, dt)
  /\ sinceRefresh' = 0
  /\ \E r \in S :
       /\ sys' = r
       /\ local' = Compute(r)
  /\ spc' = "lock"
  /\ UNCHANGED <<store, lockHolder, poisoned, lastPublished, rpc, ret>>
  /\ UNCHANGED setupVars

Refresh == RefreshFrom(Readings)

\* the same step, the provider giving LiveReadings
RefreshLive == RefreshFrom(LiveReadings)

\* line 80: SYSTEM_INFO.lock(); a poisoned mutex gives Err and the block is skipped
\* (faulty variant: lock().unwrap(), the task panics on a poisoned mutex)
SamplerLockFailedPanics == "panicked"
\* (faulty variant: the poison is ignored and the write goes on, into_inner())
SamplerLockFailedWrites == "write_a"
SamplerLockFailed == "stamp"

SamplerLock ==
  /\ spc = "lock"
  /\ CanAcquire(SamplerTask)
  /\ IF poisoned
       THEN /\ spc' = SamplerLockFailed
            /\ UNCHANGED lockHolder
       ELSE /\ spc' = "write_a"
            /\ lockHolder' = lockHolder \union {SamplerTask}
  /\ UNCHANGED <<store, poisoned, sys, local, elapsed, sinceStart, workTime,
                 sinceRefresh, sincePublish, lastPublished, rpc, ret>>
  /\ UNCHANGED setupVars

\* lines 81-88: the store of the new value; the first three fields and the tag ...
WriteA ==
  /\ spc = "write_a"
  /\ store' = Some([store.info EXCEPT !.cpu_usage = local.cpu_usage,
                                       !.memory_usage = local.memory_usage,
                                       !.memory_used = local.memory_used])
  /\ spc' = "write_b"
  /\ UNCHANGED <<lockHolder, poisoned, sys, local, elapsed, sinceStart, workTime,
                 sinceRefresh, sincePublish, lastPublished, rpc, ret>>
  /\ UNCHANGED setupVars

\* line 89: the guard is dropped at the end of the block
\* (faulty variant: the guard is leaked and the mutex stays locked)
ReleaseKeepsGuard(t) == lockHolder
Release(t) == lockHolder \ {t}

\* ... then the last three fields, and the guard is dropped
WriteB ==
  /\ spc = "write_b"
  /\ store' = Some([store.info EXCEPT !.memory_total = local.memory_total,
                                       !.process_cpu_usage = local.process_cpu_usage,
                                       !.process_memory_usage = local.process_memory_usage])
  /\ lastPublished' = Some(local)
  /\ lockHolder' = Release(SamplerTask)
  /\ sincePublish' = 0
  /\ spc' = "stamp"
  /\ UNCHANGED <<poisoned, sys, local, elapsed, sinceStart, workTime, sinceRefresh, rpc, ret>>
  /\ UNCHANGED setupVars

\* line 91: last_update = Instant::now(); the block's locals go out of scope
Stamp ==
  /\ spc = "stamp"
  /\ elapsed' = 0
  /\ sys' = NoReadings
  /\ local' = ZeroInfo
  /\ spc' = "sleep"
  /\ UNCHANGED <<store, lockHolder, poisoned, sinceStart, workTime, sinceRefresh,
                 sincePublish, lastPublished, rpc, ret>>
  /\ UNCHANGED setupVars

\* line 95: the tick
Sleep ==
  /\ spc = "sleep"
  /\ Pass(Tick, 0)
  /\ spc' = "check"
  /\ UNCHANGED <<store, lockHolder, poisoned, sys, local, lastPublished, rpc, ret>>
  /\ UNCHANGED setupVars

(* --------------------------------------------------------- get_system_info *)
\* a caller invokes the command
Call(r) ==
  /\ rpc[r] = "idle"
  /\ rpc' = [rpc EXCEPT ![r] = "calling"]
  /\ UNCHANGED <<store, lockHolder, poisoned, ret>>
  /\ UNCHANGED samplerVars
  /\ UNCHANGED setupVars

\* line 29: SYSTEM_INFO.lock().map_err(..)?; a poisoned mutex returns the Err at once
ReaderLock(r) ==
  /\ rpc[r] = "calling"
  /\ CanAcquire(r)
  /\ IF poisoned
       THEN /\ ret' = LockError
            /\ rpc' = [rpc EXCEPT ![r] = "idle"]
            /\ UNCHANGED lockHolder
       ELSE /\ rpc' = [rpc EXCEPT ![r] = "locked"]
            /\ lockHolder' = lockHolder \union {r}
            /\ UNCHANGED ret
  /\ UNCHANGED <<store, poisoned>>
  /\ UNCHANGED samplerVars
  /\ UNCHANGED setupVars

\* lines 31-41: the match on the content, a copy of the six fields
\* (faulty variant: memory_used and memory_total copied into each other's field)
ReadSwapped(s) ==
  IF s.some
    THEN Ok([s.info EXCEPT !.memory_used = s.info.memory_total,
                           !.memory_total = s.info.memory_used])
    ELSE NotInitialized
Read(s) == IF s.some THEN Ok(s.info) ELSE NotInitialized

\* line 31: the content is only borrowed (&*system_info), so it stays as it was
\* (faulty variants: Option::take, and get_or_insert with a default)
AfterReadTake(s) == None
AfterReadInit(s) == Some(s.info)
AfterRead(s) == s

\* lines 31-42: the result is built, the guard is dropped, the call returns
ReaderReturn(r) ==
  /\ rpc[r] = "locked"
  /\ ret' = Read(store)
  /\ store' = AfterRead(store)
  /\ lockHolder' = Release(r)
  /\ rpc' = [rpc EXCEPT ![r] = "idle"]
  /\ UNCHANGED poisoned
  /\ UNCHANGED samplerVars
  /\ UNCHANGED setupVars

(* -------------------------------------------------------------- the fault *)
\* a task panics while it holds the mutex: the mutex is free again, and poisoned
PoisonLock ==
  /\ lockHolder = {}
  /\ ~poisoned
  /\ poisoned' = TRUE
  /\ UNCHANGED <<store, lockHolder, rpc, ret>>
  /\ UNCHANGED samplerVars
  /\ UNCHANGED setupVars

(* ------------------------------------------------------ run() and its setup *)
\* the positions at which setup has returned (always Ok(()), lines 114, 123, 134,
\* 143, 215)
Returned ==
  {"ret_no_config_dir", "ret_store_err", "ret_window_config_err",
   "ret_window_state_err", "ret_ok"}

\* lib.rs lines 60-62: the log target's folder, dirs_2::config_dir().expect(..);
\* on None the application panics before setup is run
BuildLogTarget ==
  /\ setupPc = "build"
  /\ \E dir \in BOOLEAN : setupPc' = IF dir THEN "spawn" ELSE "panicked"
  /\ UNCHANGED <<spawnCount, disk, resource, launches, storeInits>>
  /\ UNCHANGED monitorVars

\* lib.rs lines 97-104: setup begins and spawns start_system_monitoring
\* (faulty variant: the task is not spawned)
SpawnSkipped ==
  /\ setupPc = "spawn"
  /\ setupPc' = "config_dir"
  /\ UNCHANGED <<spawnCount, disk, resource, launches, storeInits>>
  /\ UNCHANGED monitorVars
Spawn ==
  /\ setupPc = "spawn"
  /\ spawnCount' = spawnCount + 1
  /\ setupPc' = "config_dir"
  /\ UNCHANGED <<disk, resource, launches, storeInits>>
  /\ UNCHANGED monitorVars

\* lib.rs lines 109-115: dirs_2::config_dir(); on None setup returns
ConfigDir ==
  /\ setupPc = "config_dir"
  /\ \E dir \in BOOLEAN :
       setupPc' = IF dir THEN "initialize_store" ELSE "ret_no_config_dir"
  /\ UNCHANGED <<spawnCount, disk, resource, launches, storeInits>>
  /\ UNCHANGED monitorVars

\* the ways a call of initialize_store may end: an Err of create_dir_all (line 96),
\* of app.store (line 103), of store.save (line 139), or Ok (line 141)
InitializeStoreOutcomes == {"create_dir_err", "store_err", "save_err", "ok"}

\* lib.rs lines 121-124 and store_manager.rs lines 94-142: initialize_store; on Err
\* setup returns.  save() writes the store to the file, close_resource() drops
\* the resource; after an Err of save() the resource stays, with its defaults set
InitializeStore ==
  /\ setupPc = "initialize_store"
  /\ \E outcome \in InitializeStoreOutcomes :
       /\ setupPc' = IF outcome = "ok" THEN "load_window_config" ELSE "ret_store_err"
       /\ disk' = IF outcome = "ok" THEN SetDefaults(OpenStore(resource, disk)) ELSE disk
       /\ resource' = CASE outcome = "ok" -> Closed
                        [] outcome = "save_err" ->
                             Opened(SetDefaults(OpenStore(resource, disk)))
                        [] OTHER -> resource
       /\ storeInits' = IF outcome = "ok" THEN storeInits + 1 ELSE storeInits
  /\ UNCHANGED <<spawnCount, launches>>
  /\ UNCHANGED monitorVars

\* a loader of store_manager.rs on key k: app.store(path)?, which may fail and
\* otherwise leaves the resource open, then store.get(k) and from_value
Load(k, next, failed) ==
  \E opened \in BOOLEAN :
     /\ resource' = IF opened THEN Opened(OpenStore(resource, disk)) ELSE resource
     /\ setupPc' = IF opened /\ Loads(OpenStore(resource, disk), k) THEN next ELSE failed

\* lib.rs lines 130-136 and store_manager.rs lines 157-166: load_window_config
LoadWindowConfig ==
  /\ setupPc = "load_window_config"
  /\ Load("window_config", "load_window_state", "ret_window_config_err")
  /\ UNCHANGED <<spawnCount, disk, launches, storeInits>>
  /\ UNCHANGED monitorVars

\* lib.rs lines 139-145 and store_manager.rs lines 169-178: load_window_state
LoadWindowState ==
  /\ setupPc = "load_window_state"
  /\ Load("window_state", "apply_window", "ret_window_state_err")
  /\ UNCHANGED <<spawnCount, disk, launches, storeInits>>
  /\ UNCHANGED monitorVars

\* lib.rs lines 150-215: the window is set from the two values; every failure is
\* logged and passed over
ApplyWindow ==
  /\ setupPc = "apply_window"
  /\ setupPc' = "ret_ok"
  /\ UNCHANGED <<spawnCount, disk, resource, launches, storeInits>>
  /\ UNCHANGED monitorVars

\* the application ends and is started again: the file stays, all else is new
Relaunch ==
  /\ setupPc \in Returned \union {"panicked"}
  /\ launches < MaxLaunches
  /\ launches' = launches + 1
  /\ setupPc' = "build"
  /\ spawnCount' = 0
  /\ resource' = Closed
  /\ store' = InitialStore
  /\ lockHolder' = {}
  /\ poisoned' = FALSE
  /\ spc' = "new_all"
  /\ sys' = NoReadings
  /\ local' = ZeroInfo
  /\ elapsed' = 0
  /\ sinceStart' = 0
  /\ workTime' = 0
  /\ sinceRefresh' = 0
  /\ sincePublish' = 0
  /\ lastPublished' = None
  /\ rpc' = [r \in Readers |-> "idle"]
  /\ ret' = NoReturn
  /\ UNCHANGED <<disk, storeInits>>

\* the sampler task exists
Spawned == spawnCount > 0

(* ------------------------------------------------------- specifications *)
Next ==
  \/ NewAll
  \/ RefreshAll
  \/ WarmupSleep
  \/ Check
  \/ Refresh
  \/ SamplerLock
  \/ WriteA
  \/ WriteB
  \/ Stamp
  \/ Sleep
  \/ \E r \in Readers : Call(r)
  \/ \E r \in Readers : ReaderLock(r)
  \/ \E r \in Readers : ReaderReturn(r)

NextFault ==
  \/ Next
  \/ PoisonLock

\* the program as it runs: nothing in it can poison the mutex
Spec == Init /\ [][Next]_vars

\* the program with a mutex that a panic elsewhere may poison
SpecFault == Init /\ [][NextFault]_vars

\* the same program, its provider giving LiveReadings, with a mutex that a panic
\* elsewhere may poison
NextLive ==
  \/ NewAll
  \/ RefreshAll
  \/ WarmupSleep
  \/ Check
  \/ RefreshLive
  \/ SamplerLock
  \/ WriteA
  \/ WriteB
  \/ Stamp
  \/ Sleep
  \/ \E r \in Readers : Call(r)
  \/ \E r \in Readers : ReaderLock(r)
  \/ \E r \in Readers : ReaderReturn(r)
  \/ PoisonLock

\* fair scheduling: every task that can take a step eventually takes it, and a
\* task blocked in Mutex::lock gets the mutex if it is free again and again
Fairness ==
  /\ WF_vars(NewAll)
  /\ WF_vars(RefreshAll)
  /\ WF_vars(WarmupSleep)
  /\ WF_vars(Check)
  /\ WF_vars(RefreshLive)
  /\ SF_vars(SamplerLock)
  /\ WF_vars(WriteA)
  /\ WF_vars(WriteB)
  /\ WF_vars(Stamp)
  /\ WF_vars(Sleep)
  /\ \A r \in Readers : SF_vars(ReaderLock(r))
  /\ \A r \in Readers : WF_vars(ReaderReturn(r))

FairSpecFault == Init /\ [][NextLive]_vars /\ Fairness

\* the application from its start, on any configuration file, with the sampler
\* (its provider giving LiveReadings) running once it is spawned
InitSetup ==
  /\ MonitorInit
  /\ setupPc = "build"
  /\ spawnCount = 0
  /\ disk \in [Keys -> Values]
  /\ resource = Closed
  /\ launches = 1
  /\ storeInits = 0

NextSetup ==
  \/ BuildLogTarget
  \/ Spawn
  \/ ConfigDir
  \/ InitializeStore
  \/ LoadWindowConfig
  \/ LoadWindowState
  \/ ApplyWindow
  \/ Relaunch
  \/ Spawned /\ NewAll
  \/ Spawned /\ RefreshAll
  \/ Spawned /\ WarmupSleep
  \/ Spawned /\ Check
  \/ Spawned /\ RefreshLive
  \/ Spawned /\ SamplerLock
  \/ Spawned /\ WriteA
  \/ Spawned /\ WriteB
  \/ Spawned /\ Stamp
  \/ Spawned /\ Sleep

SpecSetup == InitSetup /\ [][NextSetup]_vars

(* ------------------------------------------------------------ the claims *)
\* the step in which caller r's get_system_info call returns from its match
Returns(r) == rpc[r] = "locked" /\ rpc'[r] = "idle"

\* the claim's 2.2s (200ms warm-up plus one 2s interval), in 200ms units
Deadline == (200 + 2000) \div 200

\* C1: as long as no publish has completed, every get_system_info call that has
\* returned has returned the NotInitialized error: never Ok, with a zero-filled
\* snapshot or any other.
C1_NotInitializedBeforeFirstPublish ==
  (~lastPublished.some) => ret \in {NoReturn, NotInitialized}

C1_Witness == ret = NotInitialized /\ ~lastPublished.some /\ spc = "write_b"

\* C2: every Ok snapshot a caller gets equals, in each of its six fields, the
\* snapshot of one completed publish, and it is never read while the sampler is
\* between the two halves of its write.
C2_NoTornRead ==
  [][\A r \in Readers :
       (Returns(r) /\ ret'.kind = "Ok") =>
          /\ spc # "write_b"
          /\ lastPublished.some
          /\ ret'.info.cpu_usage = lastPublished.info.cpu_usage
          /\ ret'.info.memory_usage = lastPublished.info.memory_usage
          /\ ret'.info.memory_used = lastPublished.info.memory_used
          /\ ret'.info.memory_total = lastPublished.info.memory_total
          /\ ret'.info.process_cpu_usage = lastPublished.info.process_cpu_usage
          /\ ret'.info.process_memory_usage = lastPublished.info.process_memory_usage]_vars

\* a caller has returned an Ok snapshot, caller 2 is blocked in lock(), and the
\* sampler is in the middle of writing a snapshot that differs from it in both halves
C2_Witness ==
  /\ ret.kind = "Ok"
  /\ spc = "write_b"
  /\ \E r \in Readers : rpc[r] = "calling"
  /\ local.cpu_usage # ret.info.cpu_usage
  /\ local.process_memory_usage # ret.info.process_memory_usage

\* C3: no publish completes while a caller holds the lock, and the call returns
\* what the most recent completed publish wrote (Ok with that snapshot).
C3_MostRecentPublish ==
  /\ [][(\E r \in Readers : rpc[r] = "locked") => lastPublished' = lastPublished]_vars
  /\ [][\A r \in Readers :
          (Returns(r) /\ lastPublished.some) => ret' = Ok(lastPublished.info)]_vars

\* a caller got the snapshot of an earlier publish, and a later, different one
\* has completed since
C3_Witness ==
  /\ ret.kind = "Ok"
  /\ lastPublished.some
  /\ ret.info # lastPublished.info
  /\ \E r \in Readers : rpc[r] = "locked"

\* C4: the store starts as None; once it is Some it is Some in every later
\* state; and once a publish has completed, no call that got the (unpoisoned)
\* lock returns NotInitialized.
C4_SomeForever ==
  /\ ~store.some
  /\ [][store.some => store'.some]_vars
  /\ [][\A r \in Readers :
          (Returns(r) /\ lastPublished.some) => ret' # NotInitialized]_vars

C4_Witness ==
  /\ store.some
  /\ spc = "write_a"
  /\ ret.kind = "Ok"
  /\ poisoned = FALSE

\* C5: no step of get_system_info changes the store, whatever the call returns
\* (Ok, NotInitialized, the lock error); the store changes only in the two write
\* steps of the sampler, which holds the lock then.
C5_ReadersLeaveStore ==
  /\ [][(\E r \in Readers : rpc'[r] # rpc[r]) => store' = store]_vars
  /\ [][store' # store =>
          /\ spc \in {"write_a", "write_b"}
          /\ spc' # spc
          /\ SamplerTask \in lockHolder
          /\ rpc' = rpc]_vars

\* a call has returned the lock error while the store holds a snapshot
C5_Witness == ret = LockError /\ store.some /\ poisoned

\* C6: whenever the sampler holds the lock it is in one of the two write steps:
\* never in a refresh, in the computation of the locals, or in a sleep.
C6_LockOnlyWhileWriting ==
  (SamplerTask \in lockHolder) => spc \in {"write_a", "write_b"}

\* the sampler holds the lock and a caller is blocked in lock()
C6_Witness ==
  /\ SamplerTask \in lockHolder
  /\ \E r \in Readers : rpc[r] = "calling"

\* C7: under fair scheduling every get_system_info call returns (from "calling"
\* or "locked" back to "idle", with Ok or an Err), and the lock, once held, is
\* released again; no state is a deadlock.
C7_EveryCallReturns ==
  /\ \A r \in Readers : (rpc[r] # "idle") ~> (rpc[r] = "idle")
  /\ (lockHolder # {}) ~> (lockHolder = {})
  /\ [](ENABLED NextLive)

\* every caller is blocked in lock() while the sampler holds the lock
C7_Witness ==
  /\ \A r \in Readers : rpc[r] = "calling"
  /\ SamplerTask \in lockHolder

\* the positions of the sampler loop; none of them is an exit
SamplerPositions ==
  {"new_all", "refresh_all", "warmup_sleep", "check", "refresh", "lock",
   "write_a", "write_b", "stamp", "sleep"}

\* C8: the sampler loop is always at one of its positions and never exits; under
\* fairness it refreshes and ends a cycle again and again, whether the process
\* lookup fails, total memory is zero, or the lock is poisoned.
C8_LoopNeverEnds ==
  /\ [](spc \in SamplerPositions)
  /\ []<>(spc = "refresh")
  /\ []<>(spc = "stamp")

\* a cycle ends although the process lookup failed, total memory was zero and
\* the lock was poisoned
C8_Witness ==
  /\ spc = "stamp"
  /\ ~sys.proc.found
  /\ sys.mem.total = 0
  /\ poisoned

\* C9 as stated: once more than 2.2s have passed since start_system_monitoring
\* began, the first publish has completed and a caller in its match gets Ok.
C9_PublishedAfterDeadline ==
  (sinceStart > Deadline) =>
     /\ lastPublished.some
     /\ \A r \in Readers : rpc[r] = "locked" => Read(store).kind = "Ok"

\* C9, amended: once more than 2.2s plus the time spent inside the provider's
\* calls (System::new_all, the warm-up refresh_all, the first cycle's refreshes)
\* have passed, the first publish has completed and a caller in its match gets Ok.
C9_PublishedAfterDeadlinePlusWork ==
  (sinceStart > Deadline + workTime) =>
     /\ lastPublished.some
     /\ \A r \in Readers : rpc[r] = "locked" => Read(store).kind = "Ok"

\* that time has passed, the provider's calls took time, and a caller is in its match
C9_Witness ==
  /\ sinceStart > Deadline + workTime
  /\ workTime > 0
  /\ sinceStart < SinceCap
  /\ \E r \in Readers : rpc[r] = "locked"

\* C10: at the end of a cycle in which the process lookup failed, a snapshot of
\* that cycle is in the store: its two process fields are 0 and its host fields
\* are the cycle's readings; and the loop can go on to its next tick.
C10_LookupFailurePublishesZeros ==
  (spc = "stamp" /\ ~sys.proc.found) =>
     /\ store.some
     /\ lastPublished = store
     /\ store.info.process_cpu_usage = <<0, 1>>
     /\ store.info.process_memory_usage = 0
     /\ store.info.memory_used = sys.mem.used
     /\ store.info.memory_total = sys.mem.total
     /\ store.info.memory_usage =
          (IF sys.mem.total > 0 THEN Frac(sys.mem.used * 100, sys.mem.total) ELSE <<0, 1>>)
     /\ store.info.cpu_usage = Frac(Sum(sys.cpus), Len(sys.cpus))
     /\ ENABLED Stamp

\* a cycle whose lookup failed ends, after a cycle whose lookup succeeded was read
C10_Witness ==
  /\ spc = "stamp"
  /\ ~sys.proc.found
  /\ sys.mem.total > 0
  /\ ret.kind = "Ok"
  /\ ret.info.process_memory_usage > 0

\* C11: when the sampler's lock() fails, the write is skipped: the step leaves the
\* store and the last publish as they were and goes on to last_update (no exit of
\* the loop); and under fairness the sampler comes to lock() again, in a later cycle.
C11_FailedLockSkipsPublish ==
  /\ [][(spc = "lock" /\ spc' # "lock" /\ poisoned) =>
          /\ spc' = "stamp"
          /\ store' = store
          /\ lastPublished' = lastPublished
          /\ lockHolder' = lockHolder]_vars
  /\ [][poisoned => store' = store]_vars
  /\ (poisoned /\ spc = "stamp") ~> (spc = "lock")

\* a publish was skipped before any publish completed: the store is still None
C11_Witness ==
  /\ spc = "stamp"
  /\ poisoned
  /\ ~store.some
  /\ sys \in Readings

\* C12: a get_system_info call that finds the lock poisoned returns at once, with
\* an Err that is not the NotInitialized one, whether the store is None or Some;
\* the step changes neither the store nor anything of the sampler, and the sampler
\* is not stopped by it.
C12_PoisonedLockReturnsErr ==
  [][\A r \in Readers :
       (rpc[r] = "calling" /\ rpc'[r] # "calling" /\ poisoned) =>
          /\ rpc'[r] = "idle"
          /\ ret'.kind \notin {"Ok", "NotInitialized", "none"}
          /\ ret' # NotInitialized
          /\ store' = store
          /\ lockHolder' = lockHolder
          /\ UNCHANGED samplerVars
          /\ spc \in SamplerPositions]_vars

\* the lock error was returned while the store is None, and the sampler goes on
C12_Witness ==
  /\ ret.kind = "LockError"
  /\ ~store.some
  /\ poisoned
  /\ spc = "sleep"

\* C13: whenever the store holds a snapshot (and the sampler is not between the
\* two halves of its write), memory_usage is 0 if memory_total is 0, and is
\* memory_used / memory_total * 100 otherwise; so is every Ok snapshot returned.
MemoryUsageOf(i) ==
  IF i.memory_total = 0
    THEN i.memory_usage = <<0, 1>>
    ELSE /\ i.memory_usage[2] > 0
         /\ i.memory_usage[1] * i.memory_total = i.memory_used * 100 * i.memory_usage[2]

C13_MemoryUsageGuarded ==
  /\ (store.some /\ spc # "write_b") => MemoryUsageOf(store.info)
  /\ (ret.kind = "Ok") => MemoryUsageOf(ret.info)

\* the store holds a snapshot with no memory at all, after one with memory was read
C13_Witness ==
  /\ store.some
  /\ spc = "stamp"
  /\ store.info.memory_total = 0
  /\ ret.kind = "Ok"
  /\ ret.info.memory_total > 0

\* C14 (as stated): a tick of the loop refreshes if and only if at least 2s have
\* passed since the last full refresh, or since the task began for the first one:
\* the loop is about to refresh only with 2s passed, and a tick that went to its
\* sleep without a refresh has less than 2s passed.
C14_RefreshIffSinceLastRefresh ==
  /\ (spc = "refresh") => sinceRefresh >= Interval
  /\ (spc = "sleep" /\ elapsed > 0) => sinceRefresh < Interval

\* C14 (amended): a tick refreshes if and only if at least 2s have passed since
\* last_update was set (after System::new_all() at the start, after the publish
\* step of each cycle later), and otherwise goes to its sleep with nothing changed;
\* so a refresh begins at least 2s after the one before it returned (after the task
\* began, for the first), and a publish completes at least 2s after the one before
\* it, whether or not the lock was poisoned at a publish step.
C14_RefreshIffSinceLastUpdate ==
  /\ [][(spc = "check" /\ spc' # "check") =>
          /\ (spc' = "refresh") <=> (elapsed >= 2000 \div 200)
          /\ (spc' # "refresh") => (spc' = "sleep")
          /\ (spc' = "refresh") => (sinceRefresh >= 2000 \div 200)
          /\ UNCHANGED <<store, sys, local, elapsed, lastPublished>>]_vars
  /\ [][(spc # "refresh" /\ spc' = "refresh") => spc = "check"]_vars
  /\ [][(spc = "write_b" /\ spc' # "write_b" /\ lastPublished.some) =>
          sincePublish >= 2000 \div 200]_vars

\* the loop is about to refresh again, 2s or more after a refresh whose publish
\* was skipped on the poisoned lock
C14_Witness ==
  /\ spc = "refresh"
  /\ poisoned
  /\ ~lastPublished.some
  /\ sinceRefresh < sinceStart
  /\ sinceRefresh >= Interval

\* the positions of the task before its loop
WarmupPositions == {"new_all", "refresh_all", "warmup_sleep"}
\* the positions of a cycle between its refresh and its last_update
CyclePositions == {"lock", "write_a", "write_b", "stamp"}

\* C15: the warm-up refresh is entered once, from System::new_all() only, and is
\* followed by the 200ms delay and then the first check; nothing is published and
\* no reading is kept before the loop; readings are held only inside a cycle, after
\* that cycle's refresh, and a publish stores what was computed from them.
C15_WarmupThenOwnRefresh ==
  /\ [](spc \in WarmupPositions => (~store.some /\ sys = NoReadings /\ local = ZeroInfo))
  /\ [](spc \in CyclePositions <=> sys \in Readings)
  /\ [][spc' \in WarmupPositions => spc \in WarmupPositions]_vars
  /\ [][(spc # "refresh_all" /\ spc' = "refresh_all") => spc = "new_all"]_vars
  /\ [][(spc = "refresh_all" /\ spc' # "refresh_all") => spc' = "warmup_sleep"]_vars
  /\ [][(spc = "warmup_sleep" /\ spc' # "warmup_sleep") =>
          /\ spc' = "check"
          /\ sinceStart' = sinceStart + 200 \div 200
          /\ elapsed' = elapsed + 200 \div 200]_vars
  /\ [][(spc # "check" /\ spc' = "check") => spc \in {"warmup_sleep", "sleep"}]_vars
  /\ [][(spc # "lock" /\ spc' = "lock") => (spc = "refresh" /\ local' = Compute(sys'))]_vars
  /\ [][(spc \in CyclePositions /\ spc' \in CyclePositions) =>
          (sys' = sys /\ local' = local)]_vars
  /\ [][(spc = "write_b" /\ spc' # "write_b") => store' = Some(Compute(sys))]_vars

\* a publish has just completed, of the readings of this cycle's refresh
C15_Witness ==
  /\ spc = "stamp"
  /\ sincePublish = 0
  /\ sinceRefresh = 0
  /\ lastPublished = Some(Compute(sys))
  /\ store = lastPublished

\* q is the arithmetic mean of the values of cpus
MeanOf(q, cpus) ==
  /\ Len(cpus) > 0
  /\ q[2] > 0
  /\ q[1] * Len(cpus) = Sum(cpus) * q[2]

SamplerRuns ==
  ENABLED (Spawned /\ (NewAll \/ RefreshAll \/ WarmupSleep \/ Check \/ RefreshLive
                         \/ SamplerLock \/ WriteA \/ WriteB \/ Stamp \/ Sleep))

\* C17: in a run of the application at most one sampler task is spawned; once
\* setup is past its spawn, at each of its configuration steps and wherever it
\* has returned, exactly one is, and it can take its steps; the spawn is the step
\* that opens setup, and the file is written only after it.
C17_SpawnedOnceBeforeConfig ==
  /\ [](spawnCount <= 1)
  /\ [](setupPc \notin {"build", "spawn", "panicked"} => (spawnCount = 1 /\ SamplerRuns))
  /\ [][spawnCount' # spawnCount =>
          \/ (setupPc = "spawn" /\ spawnCount' = 1)
          \/ (setupPc' = "build" /\ spawnCount' = 0)]_vars
  /\ [][(setupPc = "spawn" /\ setupPc' # "spawn") =>
          (spawnCount' = 1 /\ setupPc' = "config_dir" /\ disk' = disk
           /\ resource' = resource)]_vars
  /\ [][disk' # disk => spawnCount = 1]_vars

\* setup returned early, load_window_state having failed, and the sampler has
\* published
C17_Witness ==
  /\ setupPc = "ret_window_state_err"
  /\ spawnCount = 1
  /\ lastPublished.some
  /\ store.some

\* the step in which a call of initialize_store returns Ok
InitializeStoreOk == setupPc = "initialize_store" /\ setupPc' = "load_window_config"

\* C18: a call of initialize_store that returns Ok has given each absent key its
\* default and left each key that was there as it was; all three keys are there
\* after it; a call after one that returned Ok changes nothing.
C18_InitializeStoreFillsAbsent ==
  /\ [][InitializeStoreOk =>
          /\ \A k \in Keys :
               disk'[k] = IF disk[k] = "absent" THEN "default" ELSE disk[k]
          /\ \A k \in Keys : disk'[k] # "absent"
          /\ (storeInits >= 1 => disk' = disk)
          /\ ~resource'.open]_vars
  /\ [](storeInits >= 1 => \A k \in Keys : disk[k] # "absent")

\* a second call has returned Ok, on a file that holds a value of the user's for
\* one key and the defaults for the others
C18_Witness ==
  /\ storeInits = 2
  /\ setupPc = "load_window_config"
  /\ disk["window_config"] = "custom"
  /\ disk["project_config"] = "default"
  /\ disk["window_state"] = "default"

====
